---- MODULE Spec2Model ----
(***************************************************************************)
(* Model of semantics/semantics.py (liqing-ustc/nsr): the per-symbol       *)
(* state kept by class Semantics (noisy-example cache, confident examples, *)
(* current program, likelihood, solved flag) and the operations on it.     *)
(*                                                                         *)
(* Representation:                                                         *)
(*  - a weight (a Python float that is only ever halved and increased by   *)
(*    one) is the integer  weight * Unit, Unit a power of two large enough *)
(*    that every halving within the round bound is exact;                  *)
(*  - a likelihood (a Python float, a quotient of small integers) is a     *)
(*    reduced fraction [n, d];                                             *)
(*  - a dict is a function, whose DOMAIN is the set of keys present;       *)
(*  - the list self.examples holds one pair per cache key, so it is kept   *)
(*    as the set of its pairs (its order is the dict's insertion order and *)
(*    decides nothing that is modelled here).                              *)
(***************************************************************************)
EXTENDS Integers, Sequences, FiniteSets, TLC

VARIABLES smt, rounds, op, hist, dc, frame, log

\* one symbol on its own: its state, the update_examples calls since construction
\* or the last clear(), the call just made, the history of the rounds
symbol == <<smt, rounds, op, hist>>

\* the orchestrator: the DreamCoder object, the learn() call in progress (or the
\* call that has just returned), the events of that call
orchestrator == <<dc, frame, log>>

vars == <<smt, rounds, op, hist, dc, frame, log>>

(***************************************************************************)
(* Bounds of the model.                                                    *)
(***************************************************************************)
\* update_examples calls since construction or the last clear(), in Spec
MaxCalls == 2
\* update_examples calls since construction or the last clear(), in SpecExamples
MaxRounds == 3
\* matching-arity observations in one generated batch
MaxBatch == 2
\* learn() calls on one DreamCoder object
MaxLearn == 10
\* learn() calls that are given a dataset with observations in it
MaxFeeds == 2
\* positions at which a modelled random draw of make_task starts
MaxOffset == 2
\* symbols of the domain a merge pass runs over, in SpecMerge
MaxSymbols == 3
\* distinct inputs a symbol of arity 1 has confident examples for, in SpecMerge
MaxKeys == 3
\* confident examples beyond max_examples a symbol holds, in SpecMakeTask
MaxOver == 50
\* confident examples around max_examples: up to MaxNear beyond it
MaxNear == 3
\* the smaller number of examples the program of a symbol gets wrong
MaxWrong == 40
\* examples of arity 1 that compute_likelihood is given, in SpecLikelihood
MaxScored == 12

\* the most update_examples calls a cache goes through
Horizon ==
    CHOOSE h \in {MaxRounds, MaxCalls, MaxLearn} :
        \A k \in {MaxRounds, MaxCalls, MaxLearn} : k <= h

\* the element of a set of one element; Value({F(x) : x \in {e}}) is F(e) with
\* e evaluated once
Value(S) == CHOOSE v \in S : TRUE

RECURSIVE Pow2(_)
Pow2(k) == IF k = 0 THEN 1 ELSE 2 * Pow2(k - 1)

\* the integer that stands for weight 1.0
Unit == Pow2(Horizon)

(***************************************************************************)
(* Values.                                                                 *)
(***************************************************************************)
\* datasets.MISSING_VALUE and datasets.EMPTY_VALUE: sentinels, never observed
MISSING_VALUE == -1
EMPTY_VALUE == -2

\* outputs the dataset can show for an input
Outputs == {4, 5}

\* input tuples the dataset can show: one of arity 0, one of arity 1
Keys == {<<>>, <<2>>}

(***************************************************************************)
(* Likelihoods: exact fractions.                                           *)
(***************************************************************************)
RECURSIVE GCD(_, _)
GCD(a, b) == IF b = 0 THEN a ELSE GCD(b, a % b)

Frac(n, d) == LET g == GCD(n, d) IN [n |-> n \div g, d |-> d \div g]

FracLess(p, q) == p.n * q.d < q.n * p.d

FracGeq(p, q) == ~FracLess(p, q)

FracMax(p, q) == IF FracLess(p, q) THEN q ELSE p

FracDiv(p, q) == Frac(p.n * q.d, p.d * q.n)

Zero == Frac(0, 1)

One == Frac(1, 1)

(***************************************************************************)
(* Programs.                                                               *)
(***************************************************************************)
\* the programs the synthesis oracle can hand to update_program:
\* text is str(prog), arity the arity of its inferred type, body what it computes
Candidates ==
    { [text |-> "4",                  arity |-> 0, body |-> "four"],
      [text |-> "(+ 2 2)",            arity |-> 0, body |-> "four"],
      [text |-> "5",                  arity |-> 0, body |-> "five"],
      [text |-> "(lambda (* $0 2))",  arity |-> 1, body |-> "double"],
      [text |-> "(lambda (+ $0 $0))", arity |-> 1, body |-> "double"],
      [text |-> "(lambda (+ $0 3))",  arity |-> 1, body |-> "plus3"] }

\* prog.evaluate([]) applied to the inputs in turn
Apply(body, inputs) ==
    CASE body = "four"   -> 4
      [] body = "five"   -> 5
      [] body = "double" -> inputs[1] * 2
      [] body = "plus3"  -> inputs[1] + 3
      [] body = "mul"    -> inputs[1] * inputs[2]
      [] body = "add"    -> inputs[1] + inputs[2]
      [] body = "minus0" -> IF inputs[1] > inputs[2]
                            THEN inputs[1] - inputs[2] ELSE 0

ProgramWrapper(prog) ==
    [kind |-> "ProgramWrapper", prog |-> prog.text, arity |-> prog.arity,
     body |-> prog.body]

NULLProgram ==
    [kind |-> "NULLProgram", prog |-> "NULL", arity |-> 0, body |-> "empty"]

\* Python's None in the place of a program
NoProgram ==
    [kind |-> "None", prog |-> "None", arity |-> 0, body |-> "none"]

\* program(inputs): ProgramWrapper.__call__ (its memo cache returns what the
\* call computes, so it is not state here) and NULLProgram.__call__
Call(program, inputs) ==
    IF program.kind = "NULLProgram"
    THEN IF Len(inputs) # 0 THEN MISSING_VALUE ELSE EMPTY_VALUE
    ELSE IF Len(inputs) # program.arity
            \/ \E i \in 1..Len(inputs) : inputs[i] = MISSING_VALUE
         THEN MISSING_VALUE
         ELSE Apply(program.body, inputs)

Digits == <<"0", "1", "2", "3", "4", "5", "6", "7", "8", "9">>

\* str(n) for an int n >= 0
RECURSIVE IntStr(_)
IntStr(n) ==
    IF n < 10 THEN Digits[n + 1] ELSE IntStr(n \div 10) \o Digits[(n % 10) + 1]

\* ProgramWrapper.name: str(fn) when fn is an int (a program of arity 0), else "fn"
Name(program) ==
    IF program.arity = 0 THEN IntStr(Apply(program.body, <<>>)) ELSE "fn"

\* str(program)
Str(program) ==
    CASE program.kind = "ProgramWrapper" -> Name(program) \o " " \o program.prog
      [] program.kind = "NULLProgram"    -> program.prog
      [] program.kind = "None"           -> "None"

(***************************************************************************)
(* compute_likelihood                                                      *)
(***************************************************************************)
NoRes == [none |-> TRUE, right |-> {}]

\* compute_likelihood without lines 118-121
compute_likelihood_unweighted(program, examples, weighted_likelihood) ==
    IF examples = {}
    THEN [likelihood |-> Zero, res |-> NoRes]
    ELSE LET right == {e \in examples : Call(program, e[1]) = e[2]}
         IN  [likelihood |-> Frac(Cardinality(right), Cardinality(examples)),
              res |-> [none |-> FALSE, right |-> right]]

\* compute_likelihood with program.arity / len(examples) in line 120
compute_likelihood_arity(program, examples, weighted_likelihood) ==
    IF examples = {}
    THEN [likelihood |-> Zero, res |-> NoRes]
    ELSE LET right == {e \in examples : Call(program, e[1]) = e[2]}
             n     == Cardinality(examples)
             mean  == Frac(Cardinality(right), n)
             coef  == FracMax(One, Frac(program.arity, n))
         IN  [likelihood |-> IF weighted_likelihood THEN FracDiv(mean, coef)
                                                    ELSE mean,
              res |-> [none |-> FALSE, right |-> right]]

compute_likelihood(program, examples, weighted_likelihood) ==
    IF examples = {}
    THEN [likelihood |-> Zero, res |-> NoRes]
    ELSE LET right == {e \in examples : Call(program, e[1]) = e[2]}
             n     == Cardinality(examples)
             mean  == Frac(Cardinality(right), n)
             coef  == FracMax(One, Frac(10 * program.arity, n))
         IN  [likelihood |-> IF weighted_likelihood THEN FracDiv(mean, coef)
                                                    ELSE mean,
              res |-> [none |-> FALSE, right |-> right]]

(***************************************************************************)
(* class Semantics                                                         *)
(***************************************************************************)
Semantics(idx, arity, program, fewshot, learnable) ==
    [idx |-> idx, examples |-> {}, program |-> program, arity |-> arity,
     solved |-> FALSE, fewshot |-> fewshot, learnable |-> learnable,
     likelihood |-> IF learnable THEN Zero ELSE One,
     cache |-> <<>>, res |-> NoRes]

solved_thres == Frac(95, 100)

\* check_solved as it would be if a solved symbol were never set back
check_solved_latched(s) ==
    IF s.solved THEN s
    ELSE IF s.program.kind # "None" /\ FracGeq(s.likelihood, solved_thres)
    THEN [s EXCEPT !.solved = TRUE]
    ELSE [s EXCEPT !.solved = FALSE]

\* check_solved with > in the place of >=
check_solved_strict(s) ==
    IF s.program.kind # "None" /\ FracLess(solved_thres, s.likelihood)
    THEN [s EXCEPT !.solved = TRUE]
    ELSE [s EXCEPT !.solved = FALSE]

check_solved(s) ==
    IF s.program.kind = "None"
    THEN [s EXCEPT !.solved = FALSE]
    ELSE IF FracGeq(s.likelihood, solved_thres)
    THEN [s EXCEPT !.solved = TRUE]
    ELSE IF s.fewshot /\ FracGeq(s.likelihood, solved_thres)
            /\ Cardinality(s.examples) >= 10
    THEN [s EXCEPT !.solved = TRUE]
    ELSE [s EXCEPT !.solved = FALSE]

\* a batch is a bag of observations <<inputs, output>>: obs -> how many times
Count(batch, o) == IF o \in DOMAIN batch THEN batch[o] ELSE 0

\* examples = [x[:2] for x in examples if len(x[0]) == self.arity]
Matching(arity, batch) ==
    [o \in {p \in DOMAIN batch : Len(p[1]) = arity} |-> batch[o]]

\* lines 139-141 left out
DecayNone(cache) == cache

\* for x, ys in self.cache.items(): for y in ys: ys[y] *= 0.5
Decay(cache) ==
    [x \in DOMAIN cache |-> [y \in DOMAIN cache[x] |-> cache[x][y] \div 2]]

\* for x, y in examples: ... self.cache[x][y] += 1
Accumulate(cache, examples) ==
    LET seen == {o \in DOMAIN examples : examples[o] > 0}
        keys == DOMAIN cache \cup {o[1] : o \in seen}
    IN  [x \in keys |->
            LET old == IF x \in DOMAIN cache THEN DOMAIN cache[x] ELSE {}
                ys  == old \cup {o[2] : o \in {p \in seen : p[1] = x}}
            IN  [y \in ys |-> (IF y \in old THEN cache[x][y] ELSE 0)
                              + Count(examples, <<x, y>>) * Unit]]

\* lines 139-148 with the observations added before the decay
NewCacheDecayLast(cache, examples) == Decay(Accumulate(cache, examples))

\* lines 139-148: the decay, then the new observations
NewCache(cache, examples) == Accumulate(Decay(cache), examples)

RECURSIVE SumOver(_, _)
SumOver(f, S) ==
    IF S = {} THEN 0
    ELSE LET y == CHOOSE z \in S : TRUE IN f[y] + SumOver(f, S \ {y})

\* sum(ys.values())
Sum(ys) == SumOver(ys, DOMAIN ys)

\* max(ys.items(), key=lambda k: k[1])[0]; among equal weights Python takes the
\* first inserted, and a key with two top weights is never confident
Top(ys) == CHOOSE y \in DOMAIN ys : \A z \in DOMAIN ys : ys[z] <= ys[y]

conf_thres == 1

\* line 155 with >= 0.5 in the place of > 0.5
ConfidentHalf(ys) ==
    LET conf == ys[Top(ys)]
    IN  conf >= conf_thres * Unit /\ 2 * conf >= Sum(ys)

\* line 155 without conf >= conf_thres
ConfidentShareOnly(ys) ==
    LET conf == ys[Top(ys)]
    IN  2 * conf > Sum(ys)

\* conf >= conf_thres and (conf / sum(ys.values())) > 0.5
Confident(ys) ==
    LET conf == ys[Top(ys)]
    IN  conf >= conf_thres * Unit /\ 2 * conf > Sum(ys)

ConfExamples(cache) ==
    {<<x, Top(cache[x])>> : x \in {k \in DOMAIN cache : Confident(cache[k])}}

\* update_examples; with program None and a confident example, line 159 raises
\* AttributeError after the cache and the examples were assigned.  The cache and
\* the confident examples are bound as values: computed once, as the code does
update_examples(s, batch) ==
    Value({Value({
        LET stored == [s EXCEPT !.cache = cache, !.examples = conf_examples]
            scored == compute_likelihood(s.program, conf_examples, TRUE)
        IN  IF s.program.kind = "None" /\ conf_examples # {}
            THEN stored
            ELSE check_solved([stored EXCEPT !.likelihood = scored.likelihood,
                                             !.res = scored.res]) :
        conf_examples \in {ConfExamples(cache)}}) :
        cache \in {NewCache(s.cache, Matching(s.arity, batch))}})

\* line 170 with <= in the place of <
AcceptsNotLonger(s, program, likelihood) ==
    \/ FracLess(s.likelihood, likelihood)
    \/ /\ likelihood = s.likelihood
       /\ Len(Str(program)) <= Len(Str(s.program))

\* line 169 with >= in the place of >
AcceptsEqual(s, program, likelihood) == FracGeq(likelihood, s.likelihood)

\* lines 169-170 without the tie-break
AcceptsGreaterOnly(s, program, likelihood) == FracLess(s.likelihood, likelihood)

\* lines 169-170
Accepts(s, program, likelihood) ==
    \/ FracLess(s.likelihood, likelihood)
    \/ /\ likelihood = s.likelihood
       /\ Len(Str(program)) < Len(Str(s.program))

\* update_program without the check_solved call of line 173
update_program_unchecked(s, entry) ==
    LET program    == ProgramWrapper(entry)
        likelihood == compute_likelihood(program, s.examples, TRUE).likelihood
    IN  IF Accepts(s, program, likelihood)
        THEN [s EXCEPT !.program = program, !.likelihood = likelihood]
        ELSE s

update_program(s, entry) ==
    LET program    == ProgramWrapper(entry)
        likelihood == compute_likelihood(program, s.examples, TRUE).likelihood
    IN  IF Accepts(s, program, likelihood)
        THEN check_solved([s EXCEPT !.program = program,
                                    !.likelihood = likelihood])
        ELSE s

clear(s) ==
    [s EXCEPT !.examples = {}, !.program = NULLProgram, !.solved = FALSE,
              !.likelihood = Zero, !.cache = <<>>]

(***************************************************************************)
(* Inputs.                                                                 *)
(***************************************************************************)
ObsSpace == Keys \X Outputs

RECURSIVE BagSize(_, _)
BagSize(b, S) ==
    IF S = {} THEN 0
    ELSE LET o == CHOOSE z \in S : TRUE IN b[o] + BagSize(b, S \ {o})

\* the batches fed to a symbol of the given arity: up to MaxBatch observations of
\* its own arity, and at most one observation of another arity (of output 4)
Batches(arity) ==
    {b \in [ObsSpace -> 0..MaxBatch] :
        /\ BagSize(b, {o \in ObsSpace : Len(o[1]) = arity}) <= MaxBatch
        /\ BagSize(b, {o \in ObsSpace : Len(o[1]) # arity}) <= 1
        /\ \A o \in ObsSpace : (Len(o[1]) # arity /\ o[2] # 4) => b[o] = 0}

\* the round of the end-to-end example: output 4 three times, output 5 once
EndToEndBatch == [o \in ObsSpace |->
                    IF o = <<(<<2>>), 4>> THEN 3
                    ELSE IF o = <<(<<2>>), 5>> THEN 1 ELSE 0]

\* the learnable symbols as DreamCoder.__init__ constructs them (line 322): from
\* the Null program
Constructed ==
    {Semantics(0, 0, NULLProgram, f, TRUE) : f \in BOOLEAN}
    \cup {Semantics(0, 1, NULLProgram, FALSE, TRUE)}

\* no DreamCoder object, no learn() call, no events: a symbol on its own
NoDreamCoder == [semantics |-> <<>>]

NoFrame == [pc |-> "none"]

\* the call just made: its name and arguments, and the symbol before it
Called(name, batch, entry) ==
    [name |-> name, batch |-> batch, entry |-> entry, pre |-> smt]

NoEntry == [text |-> "", arity |-> 0, body |-> "none"]

NoBatch == [o \in ObsSpace |-> 0]

(***************************************************************************)
(* Specification Spec: every operation of one symbol.                      *)
(***************************************************************************)
\* rounds and call of a symbol that has not been fed or called yet
Fresh ==
    /\ rounds = 0
    /\ op = [name |-> "init", batch |-> NoBatch, entry |-> NoEntry, pre |-> smt]
    /\ hist = <<>>
    /\ dc = NoDreamCoder /\ frame = NoFrame /\ log = <<>>

Init == smt \in Constructed /\ Fresh

\* one update_examples call
Round(batch) ==
    /\ smt' = update_examples(smt, batch)
    /\ op' = Called("update_examples", batch, NoEntry)
    /\ rounds' = rounds + 1

UpdateExamples ==
    /\ rounds < MaxCalls
    /\ \E batch \in Batches(smt.arity) \cup {EndToEndBatch} : Round(batch)
    /\ UNCHANGED <<hist, orchestrator>>

UpdateProgram ==
    /\ \E entry \in Candidates :
          /\ smt' = update_program(smt, entry)
          /\ op' = Called("update_program", NoBatch, entry)
    /\ UNCHANGED <<rounds, hist, orchestrator>>

CheckSolved ==
    /\ smt' = check_solved(smt)
    /\ op' = Called("check_solved", NoBatch, NoEntry)
    /\ UNCHANGED <<rounds, hist, orchestrator>>

Clear ==
    /\ smt' = clear(smt)
    /\ op' = Called("clear", NoBatch, NoEntry)
    /\ rounds' = 0
    /\ hist' = <<>>
    /\ UNCHANGED orchestrator

Next == UpdateExamples \/ UpdateProgram \/ CheckSolved \/ Clear

Spec == Init /\ [][Next]_vars

(***************************************************************************)
(* Specification SpecExamples: the example rounds of one symbol, over more *)
(* rounds, with hist the history of the rounds since construction or the   *)
(* last clear(): for each round the matching-arity observations, and the   *)
(* cache and the confident examples it left.                               *)
(***************************************************************************)
FeedExamples ==
    /\ rounds < MaxRounds
    /\ \E batch \in Batches(smt.arity) \cup {EndToEndBatch} :
          /\ Round(batch)
          /\ hist' = Append(hist, [observed |-> Matching(smt.arity, batch),
                                   cache |-> smt'.cache,
                                   examples |-> smt'.examples])
    /\ UNCHANGED orchestrator

NextExamples == FeedExamples \/ Clear

InitExamples == Init /\ ~smt.fewshot

SpecExamples == InitExamples /\ [][NextExamples]_vars

(***************************************************************************)
(* Specification SpecCheckSolved: check_solved as a function of the fields *)
(* it reads.  The symbol is one of arity 1 in any state its fields can     *)
(* take: its program None (a symbol constructed without one), the Null     *)
(* program or a wrapped candidate; its likelihood and solved flag as       *)
(* load() may have stored them; up to MaxExamples confident examples.      *)
(***************************************************************************)
MaxExamples == 11

Likelihoods ==
    {Zero, Frac(1, 10), Frac(9499, 10000), Frac(95, 100), Frac(96, 100), One}

ExamplesOfSize(n) == {<<(<<k>>), 2 * k>> : k \in 1..n}

Checked ==
    {[Semantics(0, 1, program, fewshot, learnable)
        EXCEPT !.likelihood = likelihood, !.solved = solved,
               !.examples = ExamplesOfSize(n)] :
        program \in {NoProgram, NULLProgram}
                    \cup {ProgramWrapper(c) : c \in {d \in Candidates :
                                                        d.body = "double"}},
        fewshot \in BOOLEAN, learnable \in {TRUE},
        likelihood \in Likelihoods, solved \in BOOLEAN,
        n \in 0..MaxExamples}

InitCheckSolved == smt \in Checked /\ Fresh

NextCheckSolved == CheckSolved

SpecCheckSolved == InitCheckSolved /\ [][NextCheckSolved]_vars

(***************************************************************************)
(* class DreamCoder                                                        *)
(*                                                                         *)
(* Python's 0-based index idx is position idx + 1 of the sequence          *)
(* semantics.                                                              *)
(***************************************************************************)
\* the programs of two arguments the synthesis oracle can return
Candidates2 ==
    { [text |-> "(lambda (lambda (* $0 $1)))",     arity |-> 2, body |-> "mul"],
      [text |-> "(lambda (lambda (+ $0 $1)))",     arity |-> 2, body |-> "add"],
      [text |-> "(lambda (lambda (fold $0 $1 inc)))",
                                                   arity |-> 2, body |-> "add"],
      [text |-> "(lambda (lambda (fold $0 $1 dec0)))",
                                                   arity |-> 2, body |-> "minus0"] }

\* a ground-truth program of the domain: a wrapped program that prints as GT
GTProgram(arity, body) ==
    [kind |-> "ProgramWrapper", prog |-> "GT", arity |-> arity, body |-> body]

\* isinstance(program.fn, int): the programs of no argument evaluate to an int
IsInt(program) == program.kind = "ProgramWrapper" /\ program.arity = 0

\* ProgramWrapper.__eq__(self, prog)
WrapperEq(self, prog) ==
    IF self.arity # prog.arity THEN FALSE
    ELSE IF IsInt(self) /\ IsInt(prog)
    THEN Apply(self.body, <<>>) = Apply(prog.body, <<>>)
    ELSE IF self.prog # "GT" THEN self.prog = prog.prog
    ELSE FALSE

\* smt_i.program == smt_j.program for two symbols at distinct indices: a
\* ProgramWrapper on either side answers with its __eq__ (NULLProgram defines
\* none, so Python asks the right operand); two NULLProgram objects, each made
\* by its own constructor call, compare by identity
Eq(p, q) ==
    IF p.kind = "ProgramWrapper" THEN WrapperEq(p, q)
    ELSE IF q.kind = "ProgramWrapper" THEN WrapperEq(q, p)
    ELSE FALSE

\* the merge pass so far: the symbols, and the comparisons made (the pair, and
\* the symbols before and after the comparison)
Compared(st, i, j, after) ==
    [semantics |-> after,
     merges |-> Append(st.merges, [i |-> i, j |-> j, before |-> st.semantics,
                                   after |-> after])]

\* lines 480-483 with > in the place of >=
ClearsSecondStrict(smt_i, smt_j) ==
    Cardinality(smt_i.examples) > Cardinality(smt_j.examples)

\* lines 480-483 clearing the first symbol of a pair whatever the counts
ClearsSecondNever(smt_i, smt_j) == FALSE

\* len(smt_i.examples) >= len(smt_j.examples): smt_j is cleared
ClearsSecond(smt_i, smt_j) ==
    Cardinality(smt_i.examples) >= Cardinality(smt_j.examples)

\* lines 475-484: the inner loop from j on; the break ends it
RECURSIVE CompareFrom(_, _, _)
CompareFrom(st, i, j) ==
    IF j > Len(st.semantics) THEN st
    ELSE LET smt_i == st.semantics[i]
             smt_j == st.semantics[j]
         IN  IF smt_j.program.kind = "None" THEN CompareFrom(st, i, j + 1)
             ELSE IF ~Eq(smt_i.program, smt_j.program)
             THEN Value({CompareFrom(next, i, j + 1) :
                           next \in {Compared(st, i, j, st.semantics)}})
             ELSE IF ClearsSecond(smt_i, smt_j)
             THEN Value({CompareFrom(next, i, j + 1) :
                           next \in {Compared(st, i, j,
                                        [st.semantics EXCEPT
                                            ![j] = clear(smt_j)])}})
             ELSE Compared(st, i, j, [st.semantics EXCEPT ![i] = clear(smt_i)])

\* lines 471-484: the outer loop from i on
RECURSIVE MergeFrom(_, _)
MergeFrom(st, i) ==
    IF i > Len(st.semantics) - 1 THEN st
    ELSE IF st.semantics[i].program.kind = "None" THEN MergeFrom(st, i + 1)
    ELSE Value({MergeFrom(next, i + 1) : next \in {CompareFrom(st, i, i + 1)}})

\* the merge pass: the symbols it leaves and the comparisons it made
MergePass(semantics) ==
    Value({MergeFrom(st, 1) :
             st \in {[semantics |-> semantics, merges |-> <<>>]}})

\* _removeEquivalentSemantics(): the symbols it leaves
_removeEquivalentSemantics(semantics) == MergePass(semantics).semantics


\* make_task: min_examples, max_examples (lines 201-202); learn: learning_interval
min_examples == 1

max_examples == 100

learning_interval == 5

NoTask == [none |-> TRUE]

\* what random.choices and random.sample draw in one make_task call: the bag of
\* correctly predicted examples chosen (with replacement), and the examples of
\* the list wrong_examples + right_examples that the sample keeps
NoDraw == [chosen |-> <<>>, kept |-> {}]

\* the position of an example of arity 1 among the examples S, by its input
Rank(e, S) == Cardinality({f \in S : f[1][1] < e[1][1]}) + 1

\* the examples of S at positions from..to
Window(S, from, to) == {e \in S : Rank(e, S) >= from /\ Rank(e, S) <= to}

\* draws of a symbol of arity 1 with more than max_examples examples: with k =
\* max_examples - len(wrong_examples) >= 0, random.choices returns k of the right
\* examples (here k neighbours, once each, or one example k times) and the
\* sample of max_examples out of as many keeps them all; with k < 0 it returns
\* none, and the sample keeps max_examples of the wrong ones (here all but a
\* window of them)
Draws(s) ==
    LET wrong == s.examples \ s.res.right
        right == s.examples \cap s.res.right
        k     == max_examples - Cardinality(wrong)
    IN  IF k >= 0
        THEN {[kept |-> wrong,
               chosen |-> [e \in Window(right, o + 1, o + k) |-> 1]] :
                 o \in {n \in 0..MaxOffset : n + k <= Cardinality(right)}}
             \cup {[kept |-> wrong,
                    chosen |-> [e \in Window(right, o + 1, o + 1) |-> k]] :
                      o \in {n \in 0..MaxOffset :
                             k > 0 /\ n + 1 <= Cardinality(right)}}
        ELSE {[kept |-> wrong \ Window(wrong, o + 1, o - k), chosen |-> <<>>] :
                 o \in {n \in 0..MaxOffset : n - k <= Cardinality(wrong)}}

\* arrow(*([data_type]*(self.arity + 1))): every observed output is an int
Request(s) == [data |-> "tint", arity |-> s.arity]

\* make_task without lines 210-215
make_task_uncapped(s, draw) ==
    IF Cardinality(s.examples) < min_examples \/ s.solved \/ ~s.learnable
    THEN NoTask
    ELSE [none |-> FALSE, name |-> s.idx, request |-> Request(s),
          examples |-> [e \in s.examples |-> 1]]

\* make_task building a task for a solved symbol too
make_task_solved(s, draw) ==
    IF Cardinality(s.examples) < min_examples \/ ~s.learnable
    THEN NoTask
    ELSE [none |-> FALSE, name |-> s.idx, request |-> Request(s),
          examples |-> [e \in s.examples |-> 1]]

\* make_task: None, or the task, its examples a bag (an example the draw chose
\* twice is in the list twice)
make_task(s, draw) ==
    IF Cardinality(s.examples) < min_examples \/ s.solved \/ ~s.learnable
    THEN NoTask
    ELSE [none |-> FALSE, name |-> s.idx, request |-> Request(s),
          examples |->
             IF Cardinality(s.examples) > max_examples
             THEN [e \in draw.kept \cup DOMAIN draw.chosen |->
                      (IF e \in draw.kept THEN 1 ELSE 0) + Count(draw.chosen, e)]
             ELSE [e \in s.examples |-> 1]]

\* self.primitives, the base primitives of the domain (line 311)
primitives == {[kind |-> "Primitive", name |-> "base"]}

\* hint.add and hint.minus0, wrapped (lines 436-437)
hint_add == GTProgram(2, "add")

hint_minus0 == GTProgram(2, "minus0")

Invented(prog) == [kind |-> "Invented", name |-> prog]

Contains(str, ch) == \E i \in 1..Len(str) : SubSeq(str, i, i) = ch

\* line 430
Marked(program) ==
    \/ Contains(Str(program), "#")
    \/ Contains(Str(program), "+")
    \/ Contains(Str(program), "-")

\* lines 436-443: what a promoted symbol adds to new_primitives
Promoted(s) ==
    IF \A e \in s.examples :
          Call(s.program, e[1]) \in {Call(hint_add, e[1]), MISSING_VALUE}
    THEN [kind |-> "Primitive", name |-> "add"]
    ELSE IF \A e \in s.examples :
               Call(s.program, e[1]) \in {Call(hint_minus0, e[1]), MISSING_VALUE}
    THEN [kind |-> "Primitive", name |-> "minus0"]
    ELSE Invented(s.program.prog)

\* line 435 without smt.solved
PromotesUnsolved(s) == ~Marked(s.program) /\ s.learnable /\ s.arity = 2

\* lines 430-435: the symbols update_grammar promotes
Promotes(s) == ~Marked(s.program) /\ s.learnable /\ s.solved /\ s.arity = 2

NoFrontiers == [none |-> TRUE]

\* update_grammar: a grammar is the set of its components
update_grammar(d) ==
    LET new_primitives ==
            {Promoted(d.semantics[i]) :
                i \in {n \in DOMAIN d.semantics : Promotes(d.semantics[n])}}
        new_grammar == primitives \cup new_primitives
    IN  IF new_grammar # d.grammar
        THEN [d EXCEPT !.grammar = new_grammar,
                       !.helmholtzFrontiers = NoFrontiers,
                       !.allFrontiers = NoFrontiers]
        ELSE d

\* DreamCoder.__init__ (lines 314-326); enumerationTimeout is the one of
\* train_args that learn() sets
DreamCoder(config) ==
    [semantics |->
        [i \in 1..Len(config.i2w) |->
            LET w == config.i2w[i]
            IN  Semantics(i - 1, w.arity,
                          IF w.learnable THEN NULLProgram ELSE w.prog,
                          FALSE, w.learnable)],
     grammar |-> primitives,
     update_grammar |-> config.update_grammar,
     enumerationTimeout |-> 200,
     allFrontiers |-> NoFrontiers,
     helmholtzFrontiers |-> NoFrontiers,
     learn_count |-> 0]

Event(name, idx) == [name |-> name, idx |-> idx]

\* lines 378-381: update_examples on every learnable symbol the dataset has
\* observations for (zip ends with the shorter of the two lists)
Fed(semantics, dataset) ==
    [i \in DOMAIN semantics |->
        IF semantics[i].learnable /\ i <= Len(dataset)
        THEN update_examples(semantics[i], dataset[i])
        ELSE semantics[i]]

\* lines 382-385: the tasks of the learnable symbols, in the order of the symbols
Built(fed, dataset) ==
    SelectSeq([i \in DOMAIN fed |->
                  IF fed[i].learnable /\ i <= Len(dataset)
                  THEN make_task(fed[i], NoDraw) ELSE NoTask],
              LAMBDA t : ~t.none)

\* line 386
MaxArity(tasks) ==
    IF tasks = <<>> THEN 0
    ELSE CHOOSE a \in {tasks[n].request.arity : n \in DOMAIN tasks} :
            \A n \in DOMAIN tasks : tasks[n].request.arity <= a

\* the calls of lines 378-386 in their order: symbol by symbol update_examples
\* and, in a round that is due, make_task
RECURSIVE FeedEvents(_, _, _, _)
FeedEvents(semantics, dataset, due, i) ==
    IF i > Len(semantics) \/ i > Len(dataset) THEN <<>>
    ELSE (IF ~semantics[i].learnable THEN <<>>
          ELSE IF due THEN <<Event("update_examples", i - 1),
                             Event("make_task", i - 1)>>
          ELSE <<Event("update_examples", i - 1)>>)
         \o FeedEvents(semantics, dataset, due, i + 1)

\* {t.request for t in tasks}
Requests(tasks) == {tasks[n].request : n \in DOMAIN tasks}

\* lines 405-410 left out
InvalidateNever(helmholtzFrontiers, tasks) == helmholtzFrontiers

\* lines 405-410
Invalidate(helmholtzFrontiers, tasks) ==
    IF ~helmholtzFrontiers.none
       /\ Requests(tasks) # helmholtzFrontiers.requests
    THEN NoFrontiers
    ELSE helmholtzFrontiers

\* learn() calling make_task in every round
DueAlways(learn_count) == TRUE

\* self.learn_count % learning_interval == 0
Due(learn_count) == learn_count % learning_interval = 0

\* learn() going to the oracle without update_grammar
PrepareKeepsGrammar(d, tasks) ==
    [d EXCEPT !.helmholtzFrontiers = Invalidate(@, tasks)]

\* lines 397-410: update_grammar when the domain asks for it, then the check of
\* the stored exploration samples against the tasks' requests
Prepare(d, tasks) ==
    LET grown == IF d.update_grammar THEN update_grammar(d) ELSE d
    IN  [grown EXCEPT !.helmholtzFrontiers = Invalidate(@, tasks)]

\* lines 387-411, with the symbols fed and the tasks built
Invoke(d, tasks, events) ==
    IF tasks = <<>>
    THEN [dc |-> d, returned |-> TRUE, tasks |-> tasks, events |-> events]
    ELSE [dc |-> Prepare([d EXCEPT !.enumerationTimeout =
                                      IF MaxArity(tasks) = 0 THEN 5 ELSE 300],
                         tasks),
          returned |-> FALSE, tasks |-> tasks,
          events |-> events
             \o (IF d.update_grammar
                 THEN <<Event("update_grammar", -1)>> ELSE <<>>)
             \o <<Event("explorationCompression", -1)>>]

\* learn() up to the call of the synthesis oracle (lines 374-411): the object,
\* the tasks, the calls made; returned is TRUE when the call has ended (line 388)
learn(d, dataset) ==
    Value({Invoke([d EXCEPT !.learn_count = @ + 1, !.semantics = fed],
                  IF Due(d.learn_count + 1) THEN Built(fed, dataset) ELSE <<>>,
                  FeedEvents(d.semantics, dataset, Due(d.learn_count + 1), 1)) :
             fed \in {Fed(d.semantics, dataset)}})

\* the candidates of a request's type
Typed(request) ==
    {c \in Candidates \cup Candidates2 : c.arity = request.arity}

\* what explorationCompression(grammar, tasks) can return: for every task a
\* frontier, empty or with a best entry of the task's type; the frontiers of
\* the tasks; exploration samples drawn from the grammar for the tasks' requests
Results(grammar, tasks) ==
    {[taskSolutions |-> best,
      allFrontiers |-> [none |-> FALSE,
                        tasks |-> {tasks[n].name : n \in DOMAIN tasks}],
      helmholtzFrontiers |-> [none |-> FALSE, grammar |-> grammar,
                              requests |-> Requests(tasks)]] :
        best \in {f \in [DOMAIN tasks -> {NoEntry} \cup Candidates
                                            \cup Candidates2] :
                     \A n \in DOMAIN tasks :
                        f[n] = NoEntry \/ f[n] \in Typed(tasks[n].request)}}

\* lines 416-420: update_program with the best entry of every frontier that has
\* entries, on the symbol the task is named after
Updated(semantics, tasks, taskSolutions) ==
    [i \in DOMAIN semantics |->
        IF \E n \in DOMAIN tasks :
              tasks[n].name = i - 1 /\ taskSolutions[n] # NoEntry
        THEN update_program(
                semantics[i],
                taskSolutions[CHOOSE n \in DOMAIN tasks : tasks[n].name = i - 1])
        ELSE semantics[i]]

RECURSIVE UpdateEvents(_, _, _)
UpdateEvents(tasks, taskSolutions, n) ==
    IF n > Len(tasks) THEN <<>>
    ELSE (IF taskSolutions[n] = NoEntry THEN <<>>
          ELSE <<Event("update_program", tasks[n].name)>>)
         \o UpdateEvents(tasks, taskSolutions, n + 1)

\* learn() from the oracle's return on (lines 413-424)
learned(d, tasks, result) ==
    Value({[dc |-> [d EXCEPT
                       !.allFrontiers = result.allFrontiers,
                       !.helmholtzFrontiers = result.helmholtzFrontiers,
                       !.semantics = pass.semantics],
            merges |-> pass.merges,
            events |-> Append(UpdateEvents(tasks, result.taskSolutions, 1),
                              Event("_removeEquivalentSemantics", -1))] :
             pass \in {MergePass(Updated(d.semantics, tasks,
                                         result.taskSolutions))}})

(***************************************************************************)
(* Specification SpecLearn: learn() rounds on one DreamCoder object.  The  *)
(* domain has a constant symbol that is not learnable, a learnable symbol  *)
(* of arity 0 and a learnable symbol of arity 2.  A learn() call is two    *)
(* steps, up to the call of the synthesis oracle and from its return on;   *)
(* a call that ends at line 388 is one step.  rounds counts the calls that *)
(* were given observations.                                                *)
(***************************************************************************)
\* domain.i2w with sym2arity, sym2learnable and sym2prog
Vocabulary ==
    << [arity |-> 0, learnable |-> FALSE, prog |-> GTProgram(0, "four")],
       [arity |-> 0, learnable |-> TRUE,  prog |-> GTProgram(0, "five")],
       [arity |-> 2, learnable |-> TRUE,  prog |-> GTProgram(2, "mul")] >>

Configs == {[i2w |-> Vocabulary, update_grammar |-> g] : g \in BOOLEAN}

\* the inputs of arity 2 the dataset shows
Keys2 == (0..4) \X (0..3)

\* every input of arity 2 once, with its product
Products == [o \in {<<k, k[1] * k[2]>> : k \in Keys2} |-> 1]

\* the constant observed once as v
Once(v) == [o \in {<<(<<>>), v>>} |-> 1]

Nothing == <<>>

\* a dataset holds the observations of every symbol, in the order of the symbols
Quiet == <<Nothing, Nothing, Nothing>>

Datasets ==
    {Quiet, <<Nothing, Once(4), Products>>, <<Nothing, Once(5), Nothing>>,
     <<Nothing, Once(5), Products>>}

\* the symbol variables of a specification that has no symbol on its own
NoSymbol ==
    /\ smt = Semantics(0, 0, NULLProgram, FALSE, TRUE)
    /\ op = [name |-> "init", batch |-> NoBatch, entry |-> NoEntry, pre |-> smt]
    /\ hist = <<>>

Idle(d) ==
    [pc |-> "idle", tasks |-> <<>>, before |-> d, dataset |-> Quiet,
     invoked |-> d, merges |-> <<>>]

InitLearn ==
    /\ NoSymbol /\ rounds = 0
    /\ dc \in {DreamCoder(config) : config \in Configs}
    /\ frame = Idle(dc)
    /\ log = <<>>

\* learn(dataset) is called and runs up to the oracle call or to its end
Learn ==
    /\ frame.pc = "idle"
    /\ dc.learn_count < MaxLearn
    /\ \E dataset \in Datasets :
          /\ dataset # Quiet => rounds < MaxFeeds
          /\ rounds' = IF dataset = Quiet THEN rounds ELSE rounds + 1
          /\ \E call \in {learn(dc, dataset)} :
                 /\ dc' = call.dc
                 /\ frame' = [pc |-> IF call.returned THEN "idle" ELSE "oracle",
                              tasks |-> call.tasks, before |-> dc,
                              dataset |-> dataset, invoked |-> call.dc,
                              merges |-> <<>>]
                 /\ log' = call.events
    /\ UNCHANGED <<smt, op, hist>>

\* the oracle returns and learn() runs to its end
ExplorationCompression ==
    /\ frame.pc = "oracle"
    /\ \E result \in Results(dc.grammar, frame.tasks) :
          \E rest \in {learned(dc, frame.tasks, result)} :
              /\ dc' = rest.dc
              /\ frame' = [frame EXCEPT !.pc = "idle", !.merges = rest.merges]
              /\ log' = log \o rest.events
    /\ UNCHANGED <<smt, rounds, op, hist>>

NextLearn == Learn \/ ExplorationCompression

SpecLearn == InitLearn /\ [][NextLearn]_vars

(***************************************************************************)
(* Specification SpecMerge: _removeEquivalentSemantics() as a function of  *)
(* the symbols.  A DreamCoder object is constructed for a domain and each  *)
(* learnable symbol has gone through update_examples and update_program;   *)
(* the one step is the merge pass.                                         *)
(***************************************************************************)
\* the candidate that prints as text
Candidate(text) == CHOOSE c \in Candidates \cup Candidates2 : c.text = text

\* the inputs 1..n of arity 1, each observed once with its double
Doubles(n) == [o \in {<<(<<k>>), 2 * k>> : k \in 1..n} |-> 1]

\* a symbol of the domain, with what it observed and what the oracle returned
\* for it before the merge pass (NoEntry: nothing)
Word(arity, learnable, prog, batch, entry) ==
    [arity |-> arity, learnable |-> learnable, prog |-> prog, batch |-> batch,
     entry |-> entry]

MergeWords ==
    {Word(0, TRUE, GTProgram(0, "four"), Nothing, NoEntry),
     Word(1, TRUE, GTProgram(1, "double"), Doubles(1), NoEntry),
     Word(0, FALSE, GTProgram(0, "four"), Nothing, NoEntry),
     Word(2, FALSE, GTProgram(2, "mul"), Nothing, NoEntry),
     Word(2, FALSE, GTProgram(2, "add"), Nothing, NoEntry),
     Word(0, TRUE, GTProgram(0, "four"), Once(4), Candidate("4")),
     Word(0, TRUE, GTProgram(0, "four"), Once(4), Candidate("(+ 2 2)")),
     Word(0, TRUE, GTProgram(0, "five"), Once(5), Candidate("5")),
     Word(1, TRUE, GTProgram(1, "double"), Doubles(1),
          Candidate("(lambda (+ $0 $0))"))}
    \cup {Word(1, TRUE, GTProgram(1, "double"), Doubles(n),
                Candidate("(lambda (* $0 2))")) : n \in 1..MaxKeys}

\* the symbols after update_examples and update_program, as learn() calls them
Taught(semantics, i2w) ==
    [i \in DOMAIN semantics |->
        IF ~semantics[i].learnable THEN semantics[i]
        ELSE Value({IF i2w[i].entry = NoEntry THEN fed
                    ELSE update_program(fed, i2w[i].entry) :
                      fed \in {update_examples(semantics[i], i2w[i].batch)}})]

InitMerge ==
    /\ NoSymbol /\ rounds = 0
    /\ \E i2w \in [1..MaxSymbols -> MergeWords] :
          \E d \in {DreamCoder([i2w |-> i2w, update_grammar |-> FALSE])} :
              dc = [d EXCEPT !.semantics = Taught(d.semantics, i2w)]
    /\ frame = Idle(dc)
    /\ log = <<>>

\* one call of _removeEquivalentSemantics()
RemoveEquivalentSemantics ==
    /\ frame.pc = "idle"
    /\ \E pass \in {MergePass(dc.semantics)} :
          /\ dc' = [dc EXCEPT !.semantics = pass.semantics]
          /\ frame' = [frame EXCEPT !.pc = "merged", !.merges = pass.merges]
    /\ UNCHANGED <<smt, rounds, op, hist, log>>

NextMerge == RemoveEquivalentSemantics

SpecMerge == InitMerge /\ [][NextMerge]_vars

(***************************************************************************)
(* Specification SpecMakeTask: make_task() on a symbol of arity 1 that     *)
(* holds about max_examples confident examples or more.  The symbol went   *)
(* through update_examples, update_program and update_examples again, so   *)
(* smt.res is the correctness vector of its program, as in learn(), where  *)
(* make_task follows update_examples.                                      *)
(***************************************************************************)
\* the inputs 1..n once each: the first w with an output that is not the
\* double, the others with the double
Observed(n, w) ==
    [o \in {<<(<<k>>), IF k <= w THEN 2 * k + 1 ELSE 2 * k>> : k \in 1..n} |-> 1]

\* the symbol with n confident examples of which the program gets w wrong (with
\* none right the oracle's candidate is not accepted: the Null program stays)
Sized(n, w) ==
    Value({Value({update_examples(programmed, Observed(n, w)) :
                    programmed \in {update_program(fed,
                                       Candidate("(lambda (* $0 2))"))}}) :
             fed \in {update_examples(Semantics(0, 1, NULLProgram, FALSE, TRUE),
                                      Observed(n, w))}})

Sizes ==
    {max_examples + d : d \in (0 - 1)..MaxNear} \cup {max_examples + MaxOver}

Wrongs(n) ==
    {0, 1, MaxWrong, max_examples - 1, max_examples, max_examples + 1, n}
        \cap 0..n

InitMakeTask ==
    /\ smt \in UNION {{Sized(n, w) : w \in Wrongs(n)} : n \in Sizes}
    /\ rounds = 0
    /\ op = [name |-> "init", batch |-> NoBatch, entry |-> NoEntry, pre |-> smt]
    /\ hist = <<>>
    /\ dc = NoDreamCoder /\ log = <<>>
    /\ frame = [pc |-> "idle", task |-> NoTask, draw |-> NoDraw]

\* one make_task() call, with what its random draws return
MakeTask ==
    /\ frame.pc = "idle"
    /\ \E draw \in IF Cardinality(smt.examples) > max_examples
                  THEN Draws(smt) ELSE {NoDraw} :
          frame' = [pc |-> "made", task |-> make_task(smt, draw), draw |-> draw]
    /\ UNCHANGED <<smt, rounds, op, hist, dc, log>>

NextMakeTask == MakeTask

SpecMakeTask == InitMakeTask /\ [][NextMakeTask]_vars

(***************************************************************************)
(* Specification SpecGrammar: update_grammar() as a function of the        *)
(* symbols and the grammar.  The symbols went through update_examples and  *)
(* update_program; the grammar is the base grammar or one an earlier call  *)
(* has grown.                                                              *)
(***************************************************************************)
\* every input of arity 2 once, with its sum, and with its difference cut at 0
Sums == [o \in {<<k, k[1] + k[2]>> : k \in Keys2} |-> 1]

Diffs ==
    [o \in {<<k, IF k[1] > k[2] THEN k[1] - k[2] ELSE 0>> : k \in Keys2} |-> 1]

GrammarWords ==
    {Word(2, TRUE, GTProgram(2, "mul"), Products,
          Candidate("(lambda (lambda (* $0 $1)))")),
     Word(2, TRUE, GTProgram(2, "mul"), Products,
          Candidate("(lambda (lambda (fold $0 $1 inc)))")),
     Word(2, TRUE, GTProgram(2, "mul"), Products, NoEntry),
     Word(2, TRUE, GTProgram(2, "add"), Sums,
          Candidate("(lambda (lambda (fold $0 $1 inc)))")),
     Word(2, TRUE, GTProgram(2, "add"), Sums,
          Candidate("(lambda (lambda (+ $0 $1)))")),
     Word(2, TRUE, GTProgram(2, "minus0"), Diffs,
          Candidate("(lambda (lambda (fold $0 $1 dec0)))")),
     Word(2, FALSE, GTProgram(2, "mul"), Nothing, NoEntry),
     Word(0, TRUE, GTProgram(0, "four"), Once(4), Candidate("4"))}

\* the grammars an earlier update_grammar() call can have left
Grammars ==
    {primitives,
     primitives \cup {Invented("(lambda (lambda (* $0 $1)))")}}

\* what the oracle stored at an earlier call, for tasks of arity 2
SomeFrontiers == [none |-> FALSE, requests |-> {[data |-> "tint", arity |-> 2]}]

InitGrammar ==
    /\ NoSymbol /\ rounds = 0
    /\ \E i2w \in [1..MaxSymbols -> GrammarWords], grammar \in Grammars :
          \E d \in {DreamCoder([i2w |-> i2w, update_grammar |-> TRUE])} :
              dc = [d EXCEPT !.semantics = Taught(d.semantics, i2w),
                             !.grammar = grammar,
                             !.helmholtzFrontiers = SomeFrontiers,
                             !.allFrontiers = SomeFrontiers]
    /\ frame = Idle(dc)
    /\ log = <<>>

\* one call of update_grammar()
UpdateGrammar ==
    /\ frame.pc = "idle"
    /\ dc' = update_grammar(dc)
    /\ frame' = [frame EXCEPT !.pc = "updated"]
    /\ UNCHANGED <<smt, rounds, op, hist, log>>

NextGrammar == UpdateGrammar

SpecGrammar == InitGrammar /\ [][NextGrammar]_vars

(***************************************************************************)
(* Specification SpecLikelihood: compute_likelihood() as a function of the *)
(* program, the examples and the flag.  frame holds the arguments and,     *)
(* after the call, what it returned.                                       *)
(***************************************************************************)
\* the inputs (0..a) x (0..3) of arity 2 once each: the first w (in the order of
\* 4 * k[1] + k[2]) with an output that is not the product
Multiplied(a, w) ==
    [o \in {<<k, IF 4 * k[1] + k[2] < w THEN k[1] * k[2] + 1 ELSE k[1] * k[2]>> :
               k \in (0..a) \X (0..3)} |-> 1]

\* the example lists compute_likelihood is given: none, the constant, up to
\* MaxScored examples of arity 1, and 4 to 20 examples of arity 2
ExampleSets ==
    {{}, DOMAIN Once(4), DOMAIN Once(5)}
    \cup {DOMAIN Observed(n, w) : n \in 1..MaxScored, w \in 0..MaxScored}
    \cup {DOMAIN Multiplied(a, w) : a \in 0..4, w \in {0, 1, 4}}

Programs ==
    {NULLProgram}
    \cup {ProgramWrapper(Candidate(text)) :
            text \in {"4", "(lambda (* $0 2))", "(lambda (+ $0 3))",
                      "(lambda (lambda (* $0 $1)))"}}

Scoring(program, examples, weighted_likelihood) ==
    [pc |-> "idle", program |-> program, examples |-> examples,
     weighted_likelihood |-> weighted_likelihood,
     result |-> [likelihood |-> Zero, res |-> NoRes]]

InitLikelihood ==
    /\ NoSymbol /\ rounds = 0
    /\ dc = NoDreamCoder /\ log = <<>>
    /\ frame \in {Scoring(program, examples, weighted_likelihood) :
                     program \in Programs, examples \in ExampleSets,
                     weighted_likelihood \in BOOLEAN}

\* one call of compute_likelihood()
ComputeLikelihood ==
    /\ frame.pc = "idle"
    /\ frame' = [frame EXCEPT
                    !.pc = "scored",
                    !.result = compute_likelihood(frame.program, frame.examples,
                                                  frame.weighted_likelihood)]
    /\ UNCHANGED <<smt, rounds, op, hist, dc, log>>

NextLikelihood == ComputeLikelihood

SpecLikelihood == InitLikelihood /\ [][NextLikelihood]_vars

(***************************************************************************)
(* Properties.                                                             *)
(***************************************************************************)
\* the weighted likelihood update_program computes for a candidate
Scored(s, entry) ==
    compute_likelihood(ProgramWrapper(entry), s.examples, TRUE).likelihood

\* len(str(program)) of a candidate once wrapped
Length(entry) == Len(Str(ProgramWrapper(entry)))

Meets(likelihood) == likelihood.n * 100 >= 95 * likelihood.d

\* C1 as stated: a Solved symbol stays Solved across every update_examples,
\* update_program and check_solved call; only clear() makes it Unsolved.
C1_SolvedOnlyClearedByClear ==
    (op.name \in {"update_examples", "update_program", "check_solved"}
        /\ op.pre.solved) => smt.solved

\* C1 as amended: a Solved symbol stays Solved across update_program and direct
\* check_solved calls; update_examples leaves it Solved exactly when the current
\* program's weighted likelihood on the new confident examples is still >= 0.95,
\* and sets it back to Unsolved otherwise; clear() always leaves it Unsolved.
C1_SolvedFollowsRescoring ==
    /\ (op.name \in {"update_program", "check_solved"} /\ op.pre.solved)
          => smt.solved
    /\ (op.name = "update_examples" /\ op.pre.solved)
          => (smt.solved <=>
                Meets(compute_likelihood(smt.program, smt.examples,
                                         TRUE).likelihood))
    /\ op.name = "clear" => ~smt.solved

\* C1 witness: update_examples has set a Solved symbol back to Unsolved
C1_Witness ==
    op.name = "update_examples" /\ op.pre.solved /\ ~smt.solved

\* C2: update_program replaces program and likelihood by the candidate and its
\* weighted likelihood iff that likelihood is strictly greater than the stored
\* one, or equal with a strictly shorter description; otherwise nothing changes.
C2_AcceptIffBetterOrShorter ==
    op.name = "update_program" =>
        LET pre        == op.pre
            candidate  == ProgramWrapper(op.entry)
            likelihood == Scored(pre, op.entry)
            better     ==
                \/ pre.likelihood.n * likelihood.d
                      < likelihood.n * pre.likelihood.d
                \/ /\ likelihood = pre.likelihood
                   /\ Length(op.entry) < Len(Str(pre.program))
        IN  IF better
            THEN /\ smt.program = candidate
                 /\ smt.likelihood = likelihood
                 /\ smt.examples = pre.examples
                 /\ smt.cache = pre.cache
            ELSE /\ smt.program = pre.program
                 /\ smt.likelihood = pre.likelihood
                 /\ smt.solved = pre.solved
                 /\ smt = pre

\* C2 witness: a candidate of equal likelihood and shorter description has
\* replaced a program that an earlier update_program installed
C2_Witness ==
    /\ op.name = "update_program"
    /\ op.pre.program.kind = "ProgramWrapper"
    /\ Scored(op.pre, op.entry) = op.pre.likelihood
    /\ smt.program = ProgramWrapper(op.entry)
    /\ smt.program # op.pre.program

\* C3 as stated: a candidate whose weighted likelihood (here on a non-empty set
\* of confident examples) is less than or equal to the stored likelihood leaves
\* (program, likelihood) unchanged.
C3_EqualOrWorseUnchanged ==
    (op.name = "update_program"
        /\ op.pre.examples # {}
        /\ FracGeq(op.pre.likelihood, Scored(op.pre, op.entry)))
    => (smt.program = op.pre.program /\ smt.likelihood = op.pre.likelihood)

\* C3 as amended: a candidate whose weighted likelihood is less than the stored
\* likelihood, or equal to it with a description not strictly shorter than the
\* current program's, leaves (program, likelihood) unchanged; and submitting the
\* candidate again after any update_program call changes nothing.
C3_WorseOrNotShorterUnchanged ==
    op.name = "update_program" =>
        /\ (\/ FracLess(Scored(op.pre, op.entry), op.pre.likelihood)
            \/ /\ Scored(op.pre, op.entry) = op.pre.likelihood
               /\ Length(op.entry) >= Len(Str(op.pre.program)))
           => (smt.program = op.pre.program
               /\ smt.likelihood = op.pre.likelihood)
        /\ update_program(smt, op.entry) = smt

\* C3 witness: a candidate of equal, non-zero likelihood and a longer description
\* was submitted against another program and left the symbol as it was
C3_Witness ==
    /\ op.name = "update_program"
    /\ op.pre.program.kind = "ProgramWrapper"
    /\ op.pre.program # ProgramWrapper(op.entry)
    /\ Scored(op.pre, op.entry) = op.pre.likelihood
    /\ op.pre.likelihood # Zero
    /\ Length(op.entry) > Len(Str(op.pre.program))
    /\ smt = op.pre

\* two candidates of the same weighted likelihood on the symbol's examples, above
\* the stored likelihood, with descriptions of different lengths
Tied(s, c1, c2) ==
    /\ Scored(s, c1) = Scored(s, c2)
    /\ FracLess(s.likelihood, Scored(s, c1))
    /\ Length(c1) # Length(c2)

ShorterOf(c1, c2) ==
    IF Length(c1) < Length(c2) THEN ProgramWrapper(c1) ELSE ProgramWrapper(c2)

\* the candidate that a ProgramWrapper wraps
EntryOf(program) ==
    [text |-> program.prog, arity |-> program.arity, body |-> program.body]

\* C4: of two tied candidates of different description lengths, submitted one
\* after the other in either order, the shorter one ends as the program; and when
\* update_program has just been given a candidate tied with the program an
\* earlier update_program installed, the shorter of the two is the program.
C4_TieBreakOrderIndependent ==
    /\ \A c1, c2 \in Candidates :
          Tied(smt, c1, c2) =>
             update_program(update_program(smt, c1), c2).program
                = ShorterOf(c1, c2)
    /\ (op.name = "update_program"
          /\ op.pre.program.kind = "ProgramWrapper"
          /\ op.pre.likelihood = Scored(op.pre, EntryOf(op.pre.program))
          /\ Scored(op.pre, op.entry) = op.pre.likelihood
          /\ Length(op.entry) # Len(Str(op.pre.program)))
       => smt.program = ShorterOf(EntryOf(op.pre.program), op.entry)

\* C4 witness: the longer of two tied candidates was installed first, and the
\* shorter one, submitted second, has replaced it
C4_Witness ==
    /\ op.name = "update_program"
    /\ op.pre.program.kind = "ProgramWrapper"
    /\ op.pre.likelihood # Zero
    /\ Scored(op.pre, op.entry) = op.pre.likelihood
    /\ Length(op.entry) < Len(Str(op.pre.program))
    /\ smt.program = ProgramWrapper(op.entry)
    /\ \E s \in Constructed :
          Tied([s EXCEPT !.examples = smt.examples],
               EntryOf(op.pre.program), op.entry)

\* C9: after check_solved, solved holds iff the program is not None and the
\* likelihood is >= 0.95, whatever the fewshot flag, the number of confident
\* examples and the flag before the call.
C9_SolvedIffProgramAndThreshold ==
    op.name = "check_solved" =>
        (smt.solved <=> (smt.program.kind # "None" /\ Meets(smt.likelihood)))

\* C9 witness: check_solved has set a fewshot symbol of fewer than 10 confident
\* examples and likelihood exactly 0.95 to solved
C9_Witness ==
    /\ op.name = "check_solved"
    /\ smt.fewshot /\ Cardinality(smt.examples) < 10
    /\ smt.likelihood = Frac(95, 100)
    /\ ~op.pre.solved /\ smt.solved

\* the candidate computing x*2
DoubleEntry == [text |-> "(lambda (* $0 2))", arity |-> 1, body |-> "double"]

\* the cache and the confident examples the end-to-end round leaves
EndToEndCache ==
    [x \in {<<2>>} |-> [y \in {4, 5} |-> IF y = 4 THEN 3 * Unit ELSE Unit]]

EndToEndExamples == {<<(<<2>>), 4>>}

\* the end-to-end round has just been fed to a fresh learnable symbol of arity 1:
\* (2,) -> 4 three times, (2,) -> 5 once, nothing else of arity 1
EndToEndRound ==
    /\ op.name = "update_examples"
    /\ op.pre.arity = 1 /\ op.pre.learnable
    /\ op.pre.program = NULLProgram /\ op.pre.cache = <<>>
    /\ Matching(1, op.batch) = Matching(1, EndToEndBatch)

\* update_program(x*2) has just been called on the symbol as that round left it
EndToEndCandidate ==
    /\ op.name = "update_program" /\ op.entry = DoubleEntry
    /\ op.pre.arity = 1 /\ op.pre.learnable
    /\ op.pre.program = NULLProgram /\ op.pre.likelihood = Zero
    /\ rounds = 1
    /\ op.pre.cache = EndToEndCache /\ op.pre.examples = EndToEndExamples

\* C10 as stated: the end-to-end round leaves weight(4)=3, weight(5)=1 and the one
\* confident example ((2,), 4); x*2 then scores likelihood 1.0, is accepted and
\* sets solved.
C10_EndToEndSolved ==
    /\ EndToEndRound =>
          (smt.cache = EndToEndCache /\ smt.examples = EndToEndExamples)
    /\ EndToEndCandidate =>
          /\ smt.program = ProgramWrapper(DoubleEntry)
          /\ smt.likelihood = One
          /\ smt.solved

\* C10 as amended: the end-to-end round leaves weight(4)=3, weight(5)=1 and the
\* one confident example ((2,), 4); x*2 predicts it (unweighted likelihood 1.0)
\* but scores the weighted likelihood 1/10 that update_program uses (1.0 divided
\* by max(1, 10*1/1)); it is accepted, 1/10 being above the stored 0, and solved
\* stays false.
C10_EndToEndAcceptedUnsolved ==
    /\ EndToEndRound =>
          /\ smt.cache = EndToEndCache /\ smt.examples = EndToEndExamples
          /\ smt.program = NULLProgram /\ smt.likelihood = Zero
    /\ EndToEndCandidate =>
          /\ compute_likelihood(ProgramWrapper(DoubleEntry), op.pre.examples,
                                FALSE).likelihood = One
          /\ smt.program = ProgramWrapper(DoubleEntry)
          /\ smt.likelihood = Frac(1, 10)
          /\ ~smt.solved

\* C10 witness: x*2 has been submitted to the symbol the end-to-end round left
C10_Witness ==
    EndToEndCandidate /\ smt.program = ProgramWrapper(DoubleEntry)

\* the weight of cell (x, y) of a cache, 0 when the cell does not exist
Weight(cache, x, y) ==
    IF x \in DOMAIN cache /\ y \in DOMAIN cache[x] THEN cache[x][y] ELSE 0

\* the matching-arity observations of pair (x, y) in the call just made
ObservedNow(x, y) ==
    IF Len(x) = smt.arity THEN op.batch[<<x, y>>] ELSE 0

\* C5: an update_examples call leaves in every cell half of its earlier weight
\* plus the number of matching-arity observations of the pair; weights are never
\* negative; a cell unobserved for k consecutive rounds holds 2^-k of its weight.
C5_DecayThenAccumulate ==
    /\ op.name = "update_examples" =>
          \A x \in Keys, y \in Outputs :
             2 * Weight(smt.cache, x, y)
                = Weight(op.pre.cache, x, y) + 2 * Unit * ObservedNow(x, y)
    /\ \A x \in DOMAIN smt.cache : \A y \in DOMAIN smt.cache[x] :
          smt.cache[x][y] >= 0
    /\ \A i, j \in 1..Len(hist) : \A x \in Keys, y \in Outputs :
          (i < j /\ \A r \in (i + 1)..j : Count(hist[r].observed, <<x, y>>) = 0)
          => Pow2(j - i) * Weight(hist[j].cache, x, y)
                = Weight(hist[i].cache, x, y)

\* C5 witness: a cell that had weight after the first round and was not observed
\* in the next two holds a quarter of it
C5_Witness ==
    /\ Len(hist) = 3
    /\ \E x \in Keys, y \in Outputs :
          /\ Weight(hist[1].cache, x, y) > 0
          /\ Count(hist[2].observed, <<x, y>>) = 0
          /\ Count(hist[3].observed, <<x, y>>) = 0
          /\ 4 * Weight(smt.cache, x, y) = Weight(hist[1].cache, x, y)

RECURSIVE TotalWeight(_, _, _)
TotalWeight(cache, x, ys) ==
    IF ys = {} THEN 0
    ELSE LET y == CHOOSE z \in ys : TRUE
         IN  Weight(cache, x, y) + TotalWeight(cache, x, ys \ {y})

TopWeight(cache, x) ==
    CHOOSE w \in {Weight(cache, x, y) : y \in Outputs} :
        \A y \in Outputs : Weight(cache, x, y) <= w

ShareAboveHalf(cache, x) ==
    2 * TopWeight(cache, x) > TotalWeight(cache, x, Outputs)

\* key x, confident before the call just made, was not observed in it
DecayedOnly(x) ==
    /\ op.name = "update_examples"
    /\ \A y \in Outputs : ObservedNow(x, y) = 0
    /\ \E y \in Outputs : <<x, y>> \in op.pre.examples

IsConfident(x) == \E y \in Outputs : <<x, y>> \in smt.examples

\* C7 as stated: a confident key that receives no observation stays confident
\* until its top output's share has fallen to 0.5 or below, and drops out then.
C7_DropsWhenShareFalls ==
    \A x \in Keys :
        DecayedOnly(x) => (IsConfident(x) <=> ShareAboveHalf(smt.cache, x))

\* C7 as amended: a confident key that receives no observation keeps its top
\* output's share (above 0.5) and its confident pair as long as its top weight is
\* still >= 1 after the halving, and drops out once the top weight is below 1.
C7_DropsWhenWeightBelowOne ==
    \A x \in Keys :
        DecayedOnly(x) =>
            /\ ShareAboveHalf(smt.cache, x)
            /\ IsConfident(x) <=> TopWeight(smt.cache, x) >= Unit
            /\ \A y \in Outputs :
                  <<x, y>> \in smt.examples => <<x, y>> \in op.pre.examples

\* C7 witness: an unobserved key has dropped out of the confident examples
C7_Witness == \E x \in Keys : DecayedOnly(x) /\ ~IsConfident(x)

\* round r observed y for x at least once and no other output for x
Dominant(r, x, y) ==
    /\ Count(hist[r].observed, <<x, y>>) >= 1
    /\ \A z \in Outputs \ {y} : Count(hist[r].observed, <<x, z>>) = 0

\* the most observations of one pair in one batch
MaxObserved ==
    CHOOSE m \in {MaxBatch} \cup {EndToEndBatch[o] : o \in ObsSpace} :
        \A n \in {MaxBatch} \cup {EndToEndBatch[o] : o \in ObsSpace} : n <= m

\* dominant rounds after which the other outputs' weight, less than
\* 2 * MaxObserved each, is outweighed: the least k with
\* 2^k - 1 >= MaxObserved * (|Outputs| - 1)
ConvergeRounds ==
    CHOOSE k \in 0..(MaxObserved * Cardinality(Outputs)) :
        /\ Pow2(k) - 1 >= MaxObserved * (Cardinality(Outputs) - 1)
        /\ \A j \in 0..(k - 1) :
              Pow2(j) - 1 < MaxObserved * (Cardinality(Outputs) - 1)

\* C8: once the rounds observe only y for x, (x, y) is the confident example of x
\* after at most ConvergeRounds such rounds, whatever the cache held before, and
\* once confident it stays confident in every further such round.
C8_DominantOutputConverges ==
    \A x \in Keys, y \in Outputs :
        /\ (Len(hist) >= ConvergeRounds
              /\ \A r \in (Len(hist) - ConvergeRounds + 1)..Len(hist) :
                    Dominant(r, x, y))
           => {e \in smt.examples : e[1] = x} = {<<x, y>>}
        /\ \A j \in 2..Len(hist) :
              (Dominant(j, x, y) /\ <<x, y>> \in hist[j - 1].examples)
              => <<x, y>> \in hist[j].examples

\* C8 witness: another output was the confident one, one dominant round was not
\* enough to replace it, the second made (x, y) the confident example
C8_Witness ==
    /\ Len(hist) = 3
    /\ \E x \in Keys, y, z \in Outputs :
          /\ y # z
          /\ <<x, z>> \in hist[1].examples
          /\ Dominant(2, x, y) /\ Dominant(3, x, y)
          /\ <<x, y>> \notin hist[2].examples
          /\ smt.examples = {<<x, y>>}

(***************************************************************************)
(* Properties of learn(), under SpecLearn.  log holds the calls of the     *)
(* latest learn() call, frame.before the object before that call,          *)
(* frame.dataset its argument and frame.invoked the object as the call     *)
(* left it at the oracle call or, when it did not reach it, at its end.    *)
(***************************************************************************)
\* the positions in log of the calls of a name
At(name) == {n \in DOMAIN log : log[n].name = name}

\* the latest learn() call has reached the call of the synthesis oracle
Invoked == At("explorationCompression") # {}

\* a learn() call has been made and has returned
Ended == dc.learn_count > 0 /\ frame.pc = "idle"

\* the symbols that hold a task's worth of evidence as task building finds them
Taskable(semantics) ==
    {i \in DOMAIN semantics :
        /\ semantics[i].learnable /\ ~semantics[i].solved
        /\ Cardinality(semantics[i].examples) >= 1}

\* update_examples applied by hand to the learnable symbols
FedByHand(semantics, dataset) ==
    [i \in DOMAIN semantics |->
        IF semantics[i].learnable
        THEN update_examples(semantics[i], dataset[i]) ELSE semantics[i]]

\* C11 as stated: a symbol that is not learnable holds its ground-truth program,
\* likelihood 1.0 and solved = true in every reachable state, from construction
\* on and through learn() rounds and their merge passes.
C11_UnlearnablePinned ==
    \A i \in DOMAIN dc.semantics :
        ~Vocabulary[i].learnable =>
            /\ dc.semantics[i].program = Vocabulary[i].prog
            /\ dc.semantics[i].likelihood = One
            /\ dc.semantics[i].solved

\* C11, the second way it fails: a merge pass has cleared a symbol that is not
\* learnable (Null program, likelihood 0), in favour of a learnable symbol
C11_Witness ==
    /\ Ended /\ Invoked
    /\ \E i \in DOMAIN dc.semantics :
          /\ ~dc.semantics[i].learnable
          /\ frame.invoked.semantics[i].program = Vocabulary[i].prog
          /\ dc.semantics[i].program = NULLProgram
          /\ dc.semantics[i].likelihood = Zero

\* C13: the counter grows by 1 per learn() call; make_task is called only in a
\* call whose number is a multiple of 5; the oracle is invoked iff the number is
\* a multiple of 5 and a learnable symbol had a task (unsolved, with a confident
\* example), and at most once; a call that does not invoke it calls nothing but
\* update_examples (and make_task), changes no grammar, no frontier and no
\* program, and leaves every learnable symbol as update_examples left it.
C13_OracleEveryFifthRound ==
    dc.learn_count > 0 =>
        /\ dc.learn_count = frame.before.learn_count + 1
        /\ At("make_task") # {} => dc.learn_count % 5 = 0
        /\ Invoked <=> (dc.learn_count % 5 = 0
                        /\ Taskable(frame.invoked.semantics) # {})
        /\ Cardinality(At("explorationCompression")) <= 1
        /\ ~Invoked =>
              /\ frame.pc = "idle"
              /\ \A n \in DOMAIN log :
                    log[n].name \in {"update_examples", "make_task"}
              /\ \A n \in At("update_examples") :
                    frame.before.semantics[log[n].idx + 1].learnable
              /\ dc.grammar = frame.before.grammar
              /\ dc.allFrontiers = frame.before.allFrontiers
              /\ dc.helmholtzFrontiers = frame.before.helmholtzFrontiers
              /\ dc.semantics = FedByHand(frame.before.semantics, frame.dataset)

\* C13 witness: the tenth call has invoked the oracle
C13_Witness ==
    /\ frame.pc = "oracle" /\ dc.learn_count = 10
    /\ frame.before.learn_count = 9

\* log lists the calls x before the calls y
Before(x, y) == \A n \in At(x), m \in At(y) : n < m

\* the order of the calls of a round up to the oracle call, as far as C14 and its
\* amendment agree: symbol by symbol update_examples before make_task, all of
\* them before the oracle call, and after it update_program before the merge pass
OrderAgreed ==
    /\ \A n \in At("update_examples"), m \in At("make_task") :
          log[n].idx = log[m].idx => n < m
    /\ Before("update_examples", "explorationCompression")
    /\ Before("make_task", "explorationCompression")
    /\ Before("explorationCompression", "update_program")
    /\ Before("update_program", "_removeEquivalentSemantics")
    /\ Before("explorationCompression", "_removeEquivalentSemantics")

\* C14 as stated: in a round that reaches the oracle the order is update_examples,
\* task building, the oracle call, update_program, the merge pass, and the
\* grammar-update pass (when enabled) last, after the merge pass.
C14_GrammarUpdateLast ==
    (Ended /\ Invoked) =>
        /\ OrderAgreed
        /\ dc.update_grammar =>
              /\ At("update_grammar") # {}
              /\ Before("_removeEquivalentSemantics", "update_grammar")

\* C14 as amended: the grammar-update pass (when enabled) runs after task
\* building and before the oracle call, so the oracle is called with the grammar
\* already grown from the symbols solved so far and with every learnable symbol
\* as update_examples left it; after the oracle's return come update_program and
\* then the merge pass, which is the last thing the round does: the grammar is
\* the one the oracle was called with.
C14_GrammarUpdateBeforeOracle ==
    /\ Invoked =>
          /\ OrderAgreed
          /\ Before("make_task", "update_grammar")
          /\ Before("update_grammar", "explorationCompression")
          /\ dc.update_grammar <=> At("update_grammar") # {}
    /\ frame.pc = "oracle" =>
          /\ dc.semantics = FedByHand(frame.before.semantics, frame.dataset)
          /\ At("update_program") = {} /\ At("_removeEquivalentSemantics") = {}
          /\ (dc.update_grammar
              /\ \E i \in DOMAIN dc.semantics :
                    /\ dc.semantics[i].learnable /\ dc.semantics[i].solved
                    /\ dc.semantics[i].arity = 2
                    /\ dc.semantics[i].program.prog
                          = "(lambda (lambda (* $0 $1)))")
             => dc.grammar # primitives
    /\ (Ended /\ Invoked) =>
          /\ log[Len(log)].name = "_removeEquivalentSemantics"
          /\ frame.merges # <<>>
          /\ frame.merges[Len(frame.merges)].after = dc.semantics
          /\ dc.grammar = frame.invoked.grammar

\* C14 witness: a round has grown the grammar, then called the oracle, then
\* called update_program, then run the merge pass
C14_Witness ==
    /\ Ended /\ Invoked
    /\ At("update_grammar") # {} /\ At("update_program") # {}
    /\ frame.before.grammar = primitives
    /\ dc.grammar # primitives

\* C16: make_task returns None exactly when the symbol has no confident example,
\* is solved or is not learnable; in a round that reaches the oracle the tasks are
\* those of the learnable, unsolved symbols with a confident example after the
\* round's update_examples, update_program is called on such symbols only, and
\* a symbol without a task (a solved one among them) ends the round as it was or
\* cleared by the merge pass, never with a candidate in the place of its program.
C16_TasksOnlyForUnsolved ==
    /\ \A i \in DOMAIN dc.semantics :
          make_task(dc.semantics[i], NoDraw).none
             <=> \/ Cardinality(dc.semantics[i].examples) < 1
                 \/ dc.semantics[i].solved
                 \/ ~dc.semantics[i].learnable
    /\ Invoked =>
          /\ {frame.tasks[n].name + 1 : n \in DOMAIN frame.tasks}
                = Taskable(frame.invoked.semantics)
          /\ \A n \in At("update_program") :
                log[n].idx + 1 \in Taskable(frame.invoked.semantics)
    /\ (Ended /\ Invoked) =>
          \A i \in DOMAIN dc.semantics :
             i \notin Taskable(frame.invoked.semantics) =>
                /\ dc.semantics[i] \in {frame.invoked.semantics[i],
                                        clear(frame.invoked.semantics[i])}
                /\ dc.semantics[i].program
                      \in {frame.invoked.semantics[i].program, NULLProgram}

\* C16 witness: in one round a solved learnable symbol got no task and kept its
\* program while update_program gave another symbol a new program
C16_Witness ==
    /\ Ended /\ Invoked
    /\ \E i, j \in DOMAIN dc.semantics :
          /\ frame.invoked.semantics[i].learnable
          /\ frame.invoked.semantics[i].solved
          /\ dc.semantics[i].program = frame.invoked.semantics[i].program
          /\ dc.semantics[i].program.kind = "ProgramWrapper"
          /\ \E n \in At("update_program") : log[n].idx = j - 1
          /\ dc.semantics[j].program # frame.invoked.semantics[j].program
          /\ dc.semantics[j].program.kind = "ProgramWrapper"

\* C19: when update_grammar replaces the grammar, the stored frontiers and the
\* stored exploration samples are None as update_grammar returns; and at every
\* oracle call the stored exploration samples are None or were returned by an
\* earlier oracle call made with the grammar and with the set of task requests
\* of this call.
C19_SamplesMatchGrammarAndRequests ==
    /\ (dc.learn_count > 0 /\ frame.invoked.grammar # frame.before.grammar) =>
          /\ frame.invoked.allFrontiers = NoFrontiers
          /\ frame.invoked.helmholtzFrontiers = NoFrontiers
    /\ frame.pc = "oracle" =>
          \/ dc.helmholtzFrontiers = NoFrontiers
          \/ /\ dc.helmholtzFrontiers.grammar = dc.grammar
             /\ dc.helmholtzFrontiers.requests
                   = {frame.tasks[n].request : n \in DOMAIN frame.tasks}

\* C19 witness: the oracle is called a second time with the exploration samples
\* of its first call still stored
C19_Witness ==
    /\ frame.pc = "oracle"
    /\ dc.helmholtzFrontiers # NoFrontiers
    /\ frame.before.helmholtzFrontiers = dc.helmholtzFrontiers


(***************************************************************************)
(* Properties of the merge pass, under SpecMerge.  frame.before holds the  *)
(* symbols before the pass, frame.merges the comparisons it made.          *)
(***************************************************************************)
Merged == frame.pc = "merged"

\* two programs compare equal: same arity and, for two constants, the same
\* value; otherwise the same description, which is not the one of a
\* ground-truth program
Equal(p, q) ==
    /\ p.kind = "ProgramWrapper" /\ q.kind = "ProgramWrapper"
    /\ p.arity = q.arity
    /\ p.arity = 0 => Call(p, <<>>) = Call(q, <<>>)
    /\ p.arity > 0 => (p.prog = q.prog /\ p.prog # "GT")

\* two programs of the same arity and the same description
SameDescription(p, q) ==
    /\ p.kind = "ProgramWrapper" /\ q.kind = "ProgramWrapper"
    /\ p.arity = q.arity /\ p.prog = q.prog

\* the symbol as clear() leaves it
IsCleared(s) ==
    /\ s.program = NULLProgram /\ s.likelihood = Zero /\ ~s.solved
    /\ s.examples = {} /\ s.cache = <<>>

\* of the pair a comparison is about, the one with fewer confident examples, the
\* higher-indexed one when the counts are equal
Fewer(m) ==
    LET ci == Cardinality(m.before[m.i].examples)
        cj == Cardinality(m.before[m.j].examples)
    IN  IF ci < cj THEN m.i ELSE m.j

\* the comparison cleared exactly one of its pair, the one with fewer examples,
\* and left the other as it was
ClearedOne(m) ==
    /\ m.i # m.j
    /\ IsCleared(m.after[Fewer(m)])
    /\ \A n \in DOMAIN m.after : n # Fewer(m) => m.after[n] = m.before[n]
    /\ m.after[m.i].program # NULLProgram \/ m.after[m.j].program # NULLProgram

\* C12 as stated: whenever the pass compares two symbols whose programs have the
\* same arity and an identical description, exactly one of the two is cleared,
\* the one with fewer confident examples (the higher-indexed one on a tie), and
\* the other keeps program, examples, cache and likelihood.
C12_SameDescriptionMerged ==
    Merged =>
        \A n \in DOMAIN frame.merges :
            LET m == frame.merges[n]
            IN  SameDescription(m.before[m.i].program, m.before[m.j].program)
                    => ClearedOne(m)

\* C12, amended: whenever the pass compares two symbols whose programs compare
\* equal (same arity, and the same value for two constants, otherwise an
\* identical description other than that of a ground-truth program), exactly one
\* of the two is cleared, the one with fewer confident examples (the
\* higher-indexed one on a tie): Null program, likelihood 0, solved false, no
\* examples, empty cache; the other keeps program, examples, cache and
\* likelihood.  A comparison of two programs that do not compare equal changes
\* nothing.
C12_EqualProgramsMerged ==
    Merged =>
        \A n \in DOMAIN frame.merges :
            LET m == frame.merges[n]
            IN  IF Equal(m.before[m.i].program, m.before[m.j].program)
                THEN ClearedOne(m)
                ELSE m.after = m.before

\* C12: a pass compared two symbols with equal programs and cleared the first of
\* them, which had fewer examples, and another pair it compared tied and lost
\* its second
C12_Witness ==
    /\ Merged
    /\ \E n \in DOMAIN frame.merges :
          LET m == frame.merges[n]
          IN  /\ Equal(m.before[m.i].program, m.before[m.j].program)
              /\ Fewer(m) = m.i
              /\ IsCleared(m.after[m.i])
              /\ m.after[m.j].examples # {}
    /\ \E n \in DOMAIN frame.merges :
          LET m == frame.merges[n]
          IN  /\ Equal(m.before[m.i].program, m.before[m.j].program)
              /\ Cardinality(m.before[m.i].examples)
                    = Cardinality(m.before[m.j].examples)
              /\ IsCleared(m.after[m.j])

\* the symbols whose programs compare equal to the program of symbol i before
\* the pass, symbol i among them
Group(i) ==
    {i} \cup {j \in DOMAIN frame.before.semantics :
                Equal(frame.before.semantics[i].program,
                      frame.before.semantics[j].program)}

\* of a group, the symbol with the most confident examples, the lowest-indexed
\* among those that tie
Survivor(G) ==
    CHOOSE w \in G :
        \A k \in G :
            LET cw == Cardinality(frame.before.semantics[w].examples)
                ck == Cardinality(frame.before.semantics[k].examples)
            IN  cw > ck \/ (cw = ck /\ w <= k)

\* C20: after a merge pass no two symbols at distinct indices hold programs that
\* compare equal; of each group of symbols whose programs compared equal before
\* the pass exactly one survives, unchanged: the one with the most confident
\* examples, the lowest-indexed among those tied, and the others are cleared; a
\* symbol that held the Null program is never matched (with another Null
\* program or any other) and is left as it was.
C20_OneSurvivorPerGroup ==
    Merged =>
        /\ \A i, j \in DOMAIN dc.semantics :
              i # j => ~Equal(dc.semantics[i].program, dc.semantics[j].program)
        /\ \A i \in DOMAIN dc.semantics :
              LET was == frame.before.semantics[i]
              IN  IF was.program.kind = "ProgramWrapper"
                  THEN IF i = Survivor(Group(i))
                       THEN dc.semantics[i] = was
                       ELSE IsCleared(dc.semantics[i])
                  ELSE dc.semantics[i] = was
        /\ \A n \in DOMAIN frame.merges :
              LET m == frame.merges[n]
              IN  (\/ m.before[m.i].program = NULLProgram
                   \/ m.before[m.j].program = NULLProgram)
                      => m.after = m.before

\* C20: a pass ran over three symbols whose programs all compared equal, the
\* last of them with the most examples: it alone survived
C20_Witness ==
    /\ Merged
    /\ Group(1) = DOMAIN dc.semantics
    /\ Cardinality(Group(1)) >= 3
    /\ Survivor(Group(1)) = Len(dc.semantics)
    /\ dc.semantics[Len(dc.semantics)].program.kind = "ProgramWrapper"
    /\ \A i \in 1..(Len(dc.semantics) - 1) : IsCleared(dc.semantics[i])


(***************************************************************************)
(* Properties of make_task(), under SpecMakeTask.  frame.task holds what   *)
(* the call returned, a task's examples being a bag.                       *)
(***************************************************************************)
\* a make_task() call has returned a task
Made == frame.pc = "made" /\ ~frame.task.none

\* the examples the correctness vector smt.res marks wrong, and right
WrongExamples == smt.examples \ smt.res.right

RightExamples == smt.examples \cap smt.res.right

\* how many entries of the task's example list are among the examples S
Held(S) == BagSize(frame.task.examples, S \cap DOMAIN frame.task.examples)

\* the task's example list is the examples of the symbol, each once
HoldsAll ==
    /\ DOMAIN frame.task.examples = smt.examples
    /\ \A e \in smt.examples : frame.task.examples[e] = 1

\* C15 as stated: with more than max_examples confident examples the task holds
\* exactly max_examples examples, every example the program gets wrong among
\* them, and the rest are correctly predicted ones; with max_examples or fewer
\* it holds them all.
C15_CapKeepsEveryWrong ==
    Made =>
        IF Cardinality(smt.examples) > max_examples
        THEN /\ Held(smt.examples) = max_examples
             /\ DOMAIN frame.task.examples \subseteq smt.examples
             /\ WrongExamples \subseteq DOMAIN frame.task.examples
             /\ Held(RightExamples) = max_examples - Held(WrongExamples)
        ELSE HoldsAll

\* C15, amended: with more than max_examples confident examples the task's list
\* holds exactly max_examples entries.  When at most max_examples examples are
\* marked wrong, each of them is in the list once and the other entries are
\* draws from the examples marked right (with replacement: an example can be
\* in the list more than once); when more than max_examples are marked wrong,
\* the list is max_examples distinct examples marked wrong and none marked
\* right.  With max_examples or fewer confident examples the task holds them
\* all, each once.
C15_CapKeepsWrongFirst ==
    Made =>
        IF Cardinality(smt.examples) > max_examples
        THEN /\ Held(smt.examples) = max_examples
             /\ DOMAIN frame.task.examples \subseteq smt.examples
             /\ \A e \in DOMAIN frame.task.examples : frame.task.examples[e] >= 1
             /\ IF Cardinality(WrongExamples) <= max_examples
                THEN /\ WrongExamples \subseteq DOMAIN frame.task.examples
                     /\ \A e \in WrongExamples : frame.task.examples[e] = 1
                     /\ Held(RightExamples)
                           = max_examples - Cardinality(WrongExamples)
                ELSE /\ DOMAIN frame.task.examples \subseteq WrongExamples
                     /\ \A e \in DOMAIN frame.task.examples :
                           frame.task.examples[e] = 1
                     /\ Cardinality(DOMAIN frame.task.examples) = max_examples
        ELSE HoldsAll

\* C15: a symbol with max_examples + MaxOver examples, MaxWrong of them wrong
\* under its program, was given a task of max_examples entries: the MaxWrong
\* wrong ones and max_examples - MaxWrong right ones, all distinct
C15_Witness ==
    /\ Made
    /\ smt.program.kind = "ProgramWrapper"
    /\ Cardinality(smt.examples) = max_examples + MaxOver
    /\ Cardinality(WrongExamples) = MaxWrong
    /\ WrongExamples = {e \in smt.examples : Call(smt.program, e[1]) # e[2]}
    /\ WrongExamples \subseteq DOMAIN frame.task.examples
    /\ Cardinality(DOMAIN frame.task.examples \cap RightExamples)
          = max_examples - MaxWrong
    /\ Held(smt.examples) = max_examples


(***************************************************************************)
(* Properties of update_grammar(), under SpecGrammar.                      *)
(***************************************************************************)
\* the symbols that are learnable, solved, of arity 2 and whose description
\* holds none of the markers
Eligible ==
    {i \in DOMAIN dc.semantics :
        LET s == dc.semantics[i]
        IN  /\ s.learnable /\ s.solved /\ s.arity = 2
            /\ \A mark \in {"#", "+", "-"} : ~Contains(Str(s.program), mark)}

\* C17: when update_grammar() has returned, the components of the grammar
\* beyond the base primitives are exactly the ones derived from the symbols that
\* are then learnable, solved, of arity 2 and whose description holds none of
\* '#', '+', '-'; a component derived from a symbol that is not learnable or
\* not solved is in the grammar only as the component of an eligible symbol.
\* The call leaves the symbols as they were.
C17_GrammarHoldsSolvedLearnable ==
    frame.pc = "updated" =>
        /\ primitives \subseteq dc.grammar
        /\ dc.grammar \ primitives
              = {Promoted(dc.semantics[i]) : i \in Eligible}
        /\ \A i \in DOMAIN dc.semantics :
              LET s == dc.semantics[i]
              IN  (/\ ~(s.learnable /\ s.solved)
                   /\ Promoted(s) \in dc.grammar \ primitives)
                      => \E j \in Eligible :
                            Promoted(dc.semantics[j]) = Promoted(s)
        /\ dc.semantics = frame.before.semantics

\* C17: update_grammar() ran over a solved symbol it promoted, a solved symbol
\* of arity 2 that a marker excludes and an unsolved symbol of arity 2 that
\* holds a program without markers
C17_Witness ==
    /\ frame.pc = "updated"
    /\ Eligible # {}
    /\ dc.grammar # frame.before.grammar
    /\ \E i \in DOMAIN dc.semantics :
          /\ dc.semantics[i].solved /\ dc.semantics[i].arity = 2
          /\ Contains(Str(dc.semantics[i].program), "+")
    /\ \E i \in DOMAIN dc.semantics :
          /\ dc.semantics[i].learnable /\ ~dc.semantics[i].solved
          /\ dc.semantics[i].arity = 2
          /\ dc.semantics[i].program.kind = "ProgramWrapper"
          /\ ~Marked(dc.semantics[i].program)


(***************************************************************************)
(* Properties of compute_likelihood(), under SpecLikelihood.               *)
(***************************************************************************)
\* the examples the program predicts exactly
Exact == {e \in frame.examples : Call(frame.program, e[1]) = e[2]}

\* max(n, 10 * arity) for the n examples of the call
Denominator ==
    IF Cardinality(frame.examples) >= 10 * frame.program.arity
    THEN Cardinality(frame.examples) ELSE 10 * frame.program.arity

\* C18: for n > 0 examples compute_likelihood with weighting returns
\* correct / max(n, 10 * arity), the share of exactly predicted examples divided
\* by max(1, 10 * arity / n), a value in [0, 1], with the correctness vector;
\* for no examples it returns likelihood 0 and no correctness vector.
C18_WeightedLikelihood ==
    frame.pc = "scored" =>
        IF frame.examples = {}
        THEN frame.result.likelihood = Zero /\ frame.result.res.none
        ELSE /\ ~frame.result.res.none
             /\ frame.result.res.right = Exact
             /\ frame.weighted_likelihood =>
                   /\ frame.result.likelihood.d > 0
                   /\ frame.result.likelihood.n * Denominator
                         = Cardinality(Exact) * frame.result.likelihood.d
                   /\ frame.result.likelihood.n >= 0
                   /\ frame.result.likelihood.n <= frame.result.likelihood.d

\* C18: a weighted call scored fewer than 10 * arity examples, some of them
\* predicted exactly and some not: the likelihood is below the share of exact
\* predictions
C18_Witness ==
    /\ frame.pc = "scored" /\ frame.weighted_likelihood
    /\ frame.program.arity > 0
    /\ Cardinality(frame.examples) < 10 * frame.program.arity
    /\ Exact # {} /\ Exact # frame.examples
    /\ FracLess(frame.result.likelihood,
                Frac(Cardinality(Exact), Cardinality(frame.examples)))


(***************************************************************************)
(* Consistency of the stored likelihood and the solved flag, under Spec:   *)
(* every sequence of update_examples, update_program, check_solved and     *)
(* clear calls on a learnable symbol (a merge pass changes a symbol by     *)
(* clear() alone).                                                         *)
(***************************************************************************)
\* the examples of the symbol that its program predicts exactly
Predicted == {e \in smt.examples : Call(smt.program, e[1]) = e[2]}

\* max(n, 10 * arity) for the program and the n confident examples of the symbol
Weighting ==
    IF Cardinality(smt.examples) >= 10 * smt.program.arity
    THEN Cardinality(smt.examples) ELSE 10 * smt.program.arity

\* C21: in every state reachable from construction, the stored likelihood of a
\* learnable symbol is the weighted likelihood of its current program on its
\* current confident examples (0 when it has none), and solved is true exactly
\* when that likelihood is >= 0.95.
C21_LikelihoodAndSolvedConsistent ==
    smt.learnable =>
        /\ smt.likelihood.d > 0
        /\ IF smt.examples = {}
           THEN smt.likelihood.n = 0
           ELSE smt.likelihood.n * Weighting
                    = Cardinality(Predicted) * smt.likelihood.d
        /\ smt.solved <=> (100 * smt.likelihood.n >= 95 * smt.likelihood.d)

\* C21: an update_examples call has changed the confident examples of a symbol
\* that holds a program, and with them its likelihood and its solved flag
C21_Witness ==
    /\ smt.learnable /\ op.name = "update_examples"
    /\ smt.program.kind = "ProgramWrapper"
    /\ smt.examples # {} /\ smt.examples # op.pre.examples
    /\ smt.likelihood # op.pre.likelihood
    /\ smt.solved # op.pre.solved

====
